---- MODULE Spec2Model ----
(***************************************************************************)
(* State-machine model of src/src/models/BnnModel.py: the variational      *)
(* linear layer BnnLayer and the network BayesianModel built from it.      *)
(*                                                                         *)
(* Numbers.  Tensor elements are rationals <<n, d>> (d > 0, lowest terms). *)
(* The Gaussian KL formula, whose "var_ratio + t1 - 1" cancels, rounds     *)
(* every operation to the MantissaBits significant bits of float32 (Fl);   *)
(* the other operations are exact, and the exponent range of float32       *)
(* (underflow, overflow) is outside the model.  log_sigma parameters range *)
(* over multiples of LogSigmaStep, and Exp maps k * LogSigmaStep to        *)
(* ExpBase^k: a positive, strictly increasing homomorphism like exp, equal *)
(* to exp at 0, with a base that keeps every value a dyadic rational.  A   *)
(* scalar that involves the Gaussian normaliser is a pair [q, c] standing  *)
(* for q + c * log(sqrt(2*pi)).                                            *)
(*                                                                         *)
(* Random source.  torch's process-wide generator is [seed, offset]: the   *)
(* k-th variate of the stream of a seed is Noise(seed, k); drawing a       *)
(* tensor of n elements uses n consecutive variates.                       *)
(***************************************************************************)
EXTENDS Integers, Sequences, FiniteSets, TLC

VARIABLES module, rng, last

vars == <<module, rng, last>>

---------------------------------------------------------------------------
(* Bounds of the model *)

\* largest size argument (in_features, out_features, input_size, ...)
MaxSize == 2
\* largest num_layers argument
MaxLayers == 2
\* largest num_samples argument
MaxSamples == 2
\* operations that draw from the random source are enabled up to this offset
MaxOffset == 4

(* Program constants *)

\* nn.init.constant_(self.weight_std, -5.0), nn.init.constant_(self.bias_std, -5.0)
LOG_SIGMA_INIT == -5
\* torch.Tensor(out_features, in_features) is a float32 tensor: 24 significant bits
MantissaBits == 24

---------------------------------------------------------------------------
(* Exact rational arithmetic *)

Abs(n) == IF n < 0 THEN -n ELSE n

RECURSIVE GCD(_, _)
GCD(a, b) == IF b = 0 THEN a ELSE GCD(b, a % b)

Rat(n, d) == LET g == GCD(Abs(n), d) IN <<n \div g, d \div g>>

Zero == <<0, 1>>
One == <<1, 1>>
Half == <<1, 2>>
FromInt(n) == <<n, 1>>

RAdd(a, b) == LET g == GCD(a[2], b[2])
              IN  Rat(a[1] * (b[2] \div g) + b[1] * (a[2] \div g), a[2] * (b[2] \div g))
RNeg(a) == <<-a[1], a[2]>>
RSub(a, b) == RAdd(a, RNeg(b))
RMul(a, b) == Rat(a[1] * b[1], a[2] * b[2])
\* b /= 0
RDiv(a, b) == IF b[1] > 0 THEN Rat(a[1] * b[2], a[2] * b[1])
                          ELSE Rat(-(a[1] * b[2]), a[2] * (-b[1]))
RSq(a) == RMul(a, a)
RLe(a, b) == RSub(a, b)[1] <= 0
RLt(a, b) == RSub(a, b)[1] < 0

RECURSIVE Pow(_, _)
Pow(b, k) == IF k = 0 THEN 1 ELSE b * Pow(b, k - 1)

RECURSIVE RSum(_)
RSum(s) == IF s = <<>> THEN Zero ELSE RAdd(Head(s), RSum(Tail(s)))

RECURSIVE BitLen(_)
BitLen(n) == IF n = 0 THEN 0 ELSE 1 + BitLen(n \div 2)

\* float32 rounding (to nearest, ties to even) of a dyadic rational
Fl(a) ==
    LET n == Abs(a[1])
        s == BitLen(n) - MantissaBits
    IN  IF s <= 0
        THEN a
        ELSE LET m  == n \div Pow(2, s)
                 r  == n % Pow(2, s)
                 up == r > Pow(2, s - 1) \/ (r = Pow(2, s - 1) /\ m % 2 = 1)
                 k  == IF up THEN m + 1 ELSE m
             IN  Rat((IF a[1] < 0 THEN -1 ELSE 1) * k * Pow(2, s), a[2])

\* all elements of a matrix (a sequence of rows), row by row
RECURSIVE Flatten(_)
Flatten(rows) == IF rows = <<>> THEN <<>> ELSE Head(rows) \o Flatten(Tail(rows))

---------------------------------------------------------------------------
(* Tensors: a matrix is [r, c, e] with e its r rows of c elements; a vector *)
(* is the sequence of its elements.                                         *)

Matrix(r, c, f(_, _)) == [r |-> r, c |-> c, e |-> [i \in 1..r |-> [j \in 1..c |-> f(i, j)]]]
Numel(m) == m.r * m.c

\* torch.exp on the log_sigma grid
LogSigmaStep == 5
ExpBase == 2
Exp(l) == LET k == l \div LogSigmaStep
          IN  IF k >= 0 THEN <<Pow(ExpBase, k), 1>> ELSE <<1, Pow(ExpBase, -k)>>

\* torch.log, which the program only evaluates at 1 (see kl_normal_normal)
Log(a) == CASE a = One -> Zero

---------------------------------------------------------------------------
(* The process-wide random source *)

Seeds == {0}

\* the k-th standard-normal variate of the stream of a seed
Noise(seed, k) == ((seed + 2 * k + (k \div 3)) % 3) - 1

\* torch.manual_seed(seed)
manual_seed(seed) == [seed |-> seed, offset |-> 0]

\* mutant of DrawMatrix: the variates are drawn but the source is not advanced
DrawMatrixStale(g, r, c) ==
    [t   |-> Matrix(r, c, LAMBDA i, j : FromInt(Noise(g.seed, g.offset + (i - 1) * c + (j - 1)))),
     rng |-> g]

\* tensor.normal_() / _standard_normal(shape): r*c variates, and the source after
DrawMatrix(g, r, c) ==
    [t   |-> Matrix(r, c, LAMBDA i, j : FromInt(Noise(g.seed, g.offset + (i - 1) * c + (j - 1)))),
     rng |-> [g EXCEPT !.offset = g.offset + r * c]]

DrawVector(g, n) ==
    [t   |-> [i \in 1..n |-> FromInt(Noise(g.seed, g.offset + (i - 1)))],
     rng |-> [g EXCEPT !.offset = g.offset + n]]

---------------------------------------------------------------------------
(* BnnLayer *)

\* nn.init.kaiming_normal_: a no-op on a zero-element tensor, else normal_(0, std)
kaiming_normal_(g, r, c) ==
    IF r = 0 \/ c = 0
    THEN [t |-> Matrix(r, c, LAMBDA i, j : Zero), rng |-> g]
    ELSE DrawMatrix(g, r, c)

\* BnnLayer.reset_parameters
reset_parameters(in_features, out_features, g) ==
    LET w == kaiming_normal_(g, out_features, in_features)
    IN  [self |-> [in_features  |-> in_features,
                   out_features |-> out_features,
                   weight_mu    |-> w.t,
                   weight_std   |-> Matrix(out_features, in_features,
                                           LAMBDA i, j : LOG_SIGMA_INIT),
                   bias_mu      |-> [i \in 1..out_features |-> Zero],
                   bias_std     |-> [i \in 1..out_features |-> LOG_SIGMA_INIT]],
         rng  |-> w.rng]

\* BnnLayer.__init__: torch.Tensor(out_features, in_features) refuses a negative
\* dimension; nothing else is checked
BnnLayer_init(in_features, out_features, g) ==
    IF in_features < 0 \/ out_features < 0
    THEN [ok |-> FALSE, error |-> "negative_dimension", rng |-> g]
    ELSE LET p == reset_parameters(in_features, out_features, g)
         IN  [ok |-> TRUE, self |-> p.self, rng |-> p.rng]

\* Normal(mu, torch.exp(std)).rsample() = mu + exp(std) * eps
RSample(mu, std, eps) == RAdd(mu, RMul(Exp(std), eps))

\* F.linear(x, weight, bias) = x @ weight^T + bias
F_linear(x, weight, bias) ==
    IF x.c # weight.c
    THEN [ok |-> FALSE, error |-> "size_mismatch"]
    ELSE [ok |-> TRUE,
          out |-> Matrix(x.r, weight.r,
                     LAMBDA i, o : RAdd(RSum([j \in 1..x.c |-> RMul(x.e[i][j], weight.e[o][j])]),
                                        bias[o]))]

\* BnnLayer.forward
BnnLayer_forward(self, x, g) ==
    LET ew     == DrawMatrix(g, self.out_features, self.in_features)
        weight == Matrix(self.out_features, self.in_features,
                         LAMBDA i, j : RSample(self.weight_mu.e[i][j],
                                               self.weight_std.e[i][j], ew.t.e[i][j]))
        eb     == DrawVector(ew.rng, self.out_features)
        bias   == [i \in 1..self.out_features |->
                      RSample(self.bias_mu[i], self.bias_std[i], eb.t[i])]
        y      == F_linear(x, weight, bias)
        draws  == << [tensor |-> "weight", at |-> g.offset, n |-> Numel(ew.t)],
                     [tensor |-> "bias", at |-> ew.rng.offset, n |-> self.out_features] >>
    IN  IF y.ok
        THEN [ok |-> TRUE, out |-> y.out, rng |-> eb.rng, draws |-> draws,
              weight |-> weight, bias |-> bias]
        ELSE [ok |-> FALSE, error |-> y.error, rng |-> eb.rng, draws |-> draws]

\* torch.distributions.kl._kl_normal_normal(p, q), scales given by their logarithms
kl_normal_normal(p_loc, p_std, q_loc, q_std) ==
    LET var_ratio == Fl(RSq(Fl(RDiv(Exp(p_std), Exp(q_std)))))
        t1        == Fl(RSq(Fl(RDiv(Fl(RSub(p_loc, q_loc)), Exp(q_std)))))
    IN  Fl(RMul(Half, Fl(RSub(Fl(RSub(Fl(RAdd(var_ratio, t1)), One)),
                              Log(var_ratio)))))

\* kl_divergence(weight_posterior, weight_prior).sum()
kl_weight(self) ==
    RSum(Flatten([i \in 1..self.out_features |-> [j \in 1..self.in_features |->
            kl_normal_normal(self.weight_mu.e[i][j], self.weight_std.e[i][j],
                             Zero, self.weight_std.e[i][j])]]))

\* kl_divergence(bias_posterior, bias_prior).sum()
kl_bias(self) ==
    RSum([i \in 1..self.out_features |->
            kl_normal_normal(self.bias_mu[i], self.bias_std[i], Zero, self.bias_std[i])])

\* BnnLayer.kl_divergence
BnnLayer_kl_divergence(self) == RAdd(kl_weight(self), kl_bias(self))

---------------------------------------------------------------------------
(* BayesianModel *)

\* [BnnLayer(input_size, hidden_size) if i == 0 else BnnLayer(hidden_size, hidden_size)
\*  for i in range(num_layers)], built in order; acc holds layers 0 .. i-1
RECURSIVE HiddenLayers(_, _, _, _, _, _)
HiddenLayers(input_size, hidden_size, num_layers, i, g, acc) ==
    IF i >= num_layers
    THEN [ok |-> TRUE, layers |-> acc, rng |-> g]
    ELSE LET l == BnnLayer_init(IF i = 0 THEN input_size ELSE hidden_size, hidden_size, g)
         IN  IF l.ok
             THEN HiddenLayers(input_size, hidden_size, num_layers, i + 1, l.rng,
                               Append(acc, l.self))
             ELSE [ok |-> FALSE, error |-> l.error, rng |-> l.rng]

\* BayesianModel.__init__.  The object keeps layers and output_layer; input_size is
\* recorded here only so that properties can refer to the constructor's argument.
BayesianModel_init(input_size, hidden_size, output_size, num_layers, g) ==
    LET h == HiddenLayers(input_size, hidden_size, num_layers, 0, g, <<>>)
    IN  IF ~h.ok
        THEN h
        ELSE LET o == BnnLayer_init(hidden_size, output_size, h.rng)
             IN  IF ~o.ok
                 THEN o
                 ELSE [ok   |-> TRUE,
                       self |-> [layers |-> h.layers, output_layer |-> o.self,
                                 input_size |-> input_size],
                       rng  |-> o.rng]

\* mutant of F_relu: no nonlinearity
F_identity(x) == x

\* F.relu
Relu(a) == IF RLe(a, Zero) THEN Zero ELSE a
F_relu(x) == Matrix(x.r, x.c, LAMBDA i, j : Relu(x.e[i][j]))

\* the draws of layer i
Tag(draws, i) == [k \in 1..Len(draws) |-> [layer |-> i] @@ draws[k]]

\* BayesianModel.forward from hidden layer i on (i = num_layers + 1: the output
\* layer).  steps records each layer applied: its index, its input, the sampled
\* weight and bias, and what it passes on; draws lists the draws made so far.
RECURSIVE ForwardFrom(_, _, _, _, _, _)

\* what follows layer i, whose forward on x returned r and passes on a: an
\* error ends the pass, a hidden layer hands a to the next layer, the output
\* layer returns it
AfterLayer(self, i, x, steps, draws, r, a) ==
    IF ~r.ok
    THEN [ok |-> FALSE, error |-> r.error, rng |-> r.rng, steps |-> steps,
          draws |-> draws \o Tag(r.draws, i)]
    ELSE IF i <= Len(self.layers)
    THEN ForwardFrom(self, i + 1, a, r.rng,
             Append(steps, [layer |-> i, input |-> x, weight |-> r.weight,
                            bias |-> r.bias, out |-> a]),
             draws \o Tag(r.draws, i))
    ELSE [ok |-> TRUE, out |-> a, rng |-> r.rng,
          steps |-> Append(steps, [layer |-> i, input |-> x, weight |-> r.weight,
                                   bias |-> r.bias, out |-> a]),
          draws |-> draws \o Tag(r.draws, i)]

\* x = F.relu(layer(x)) for a hidden layer
HiddenStep(self, i, x, steps, draws, r) ==
    AfterLayer(self, i, x, steps, draws, r, IF r.ok THEN F_relu(r.out) ELSE x)

\* x = self.output_layer(x)
OutputStep(self, i, x, steps, draws, r) ==
    AfterLayer(self, i, x, steps, draws, r, IF r.ok THEN r.out ELSE x)

ForwardFrom(self, i, x, g, steps, draws) ==
    IF i <= Len(self.layers)
    THEN HiddenStep(self, i, x, steps, draws, BnnLayer_forward(self.layers[i], x, g))
    ELSE OutputStep(self, i, x, steps, draws, BnnLayer_forward(self.output_layer, x, g))

BayesianModel_forward(self, x, g) == ForwardFrom(self, 1, x, g, <<>>, <<>>)

\* BayesianModel.kl_divergence: kl = 0; for layer in self.layers: kl += ...;
\* kl += self.output_layer.kl_divergence().  visited lists the layers added.
RECURSIVE KlFrom(_, _, _, _)
KlFrom(self, i, kl, visited) ==
    IF i <= Len(self.layers)
    THEN KlFrom(self, i + 1, RAdd(kl, BnnLayer_kl_divergence(self.layers[i])),
                Append(visited, i))
    ELSE [value   |-> RAdd(kl, BnnLayer_kl_divergence(self.output_layer)),
          visited |-> Append(visited, i)]

\* mutant of BayesianModel_kl_divergence: the first hidden layer is skipped
KlFromSecondLayer(self) == KlFrom(self, 2, Zero, <<>>)

BayesianModel_kl_divergence(self) == KlFrom(self, 1, Zero, <<>>)

---------------------------------------------------------------------------
(* BayesianModel.elbo_loss *)

\* scalars q + c * log(sqrt(2*pi))
Lin(q, c) == [q |-> q, c |-> c]
LAdd(a, b) == Lin(RAdd(a.q, b.q), a.c + b.c)
LNeg(a) == Lin(RNeg(a.q), -a.c)
LSub(a, b) == LAdd(a, LNeg(b))

RECURSIVE LSum(_)
LSum(s) == IF s = <<>> THEN Lin(Zero, 0) ELSE LAdd(Head(s), LSum(Tail(s)))

\* one forward pass f, whose output is appended for each of the passes k .. num_samples
RepeatPass(num_samples, k, acc, f) ==
    IF ~f.ok
    THEN [ok |-> FALSE, error |-> f.error, rng |-> f.rng, passes |-> Append(acc, f)]
    ELSE [ok |-> TRUE, passes |-> acc \o [j \in k..num_samples |-> f], rng |-> f.rng]

\* mutant of Passes: one forward pass, whose output is appended num_samples times
PassesOneSample(self, x, num_samples, k, g, acc) ==
    IF k > num_samples
    THEN [ok |-> TRUE, passes |-> acc, rng |-> g]
    ELSE RepeatPass(num_samples, k, acc, BayesianModel_forward(self, x, g))

\* for _ in range(num_samples): outputs.append(self.forward(x)); passes k .. num_samples
RECURSIVE Passes(_, _, _, _, _, _)

\* outputs.append(output) for the result f of pass k, then the next pass
AfterPass(self, x, num_samples, k, acc, f) ==
    IF ~f.ok
    THEN [ok |-> FALSE, error |-> f.error, rng |-> f.rng, passes |-> Append(acc, f)]
    ELSE Passes(self, x, num_samples, k + 1, f.rng, Append(acc, f))

Passes(self, x, num_samples, k, g, acc) ==
    IF k > num_samples
    THEN [ok |-> TRUE, passes |-> acc, rng |-> g]
    ELSE AfterPass(self, x, num_samples, k, acc, BayesianModel_forward(self, x, g))

\* torch.stack(outputs).mean(0)
Mean0(outputs) ==
    Matrix(outputs[1].r, outputs[1].c,
           LAMBDA i, j : RDiv(RSum([k \in 1..Len(outputs) |-> outputs[k].e[i][j]]),
                              FromInt(Len(outputs))))

\* Normal(loc, scale).log_prob(value) for one element
NormalLogProb(loc, scale, value) ==
    Lin(RSub(RNeg(RDiv(RSq(RSub(value, loc)), RMul(FromInt(2), RSq(scale)))), Log(scale)), -1)

\* broadcasting of one dimension
Broadcastable(a, b) == a = b \/ a = 1 \/ b = 1
BDim(a, b) == IF a = 1 THEN b ELSE a
BIndex(n, i) == IF n = 1 THEN 1 ELSE i

\* Normal(loc, 1).log_prob(y).sum(): y is checked to be broadcastable with loc
\* and the elementwise result has the broadcast shape
LogLikelihood(loc, y) ==
    IF ~(Broadcastable(loc.r, y.r) /\ Broadcastable(loc.c, y.c))
    THEN [ok |-> FALSE, error |-> "broadcast_mismatch"]
    ELSE LET lp == Matrix(BDim(loc.r, y.r), BDim(loc.c, y.c),
                      LAMBDA i, j : NormalLogProb(loc.e[BIndex(loc.r, i)][BIndex(loc.c, j)], One,
                                                  y.e[BIndex(y.r, i)][BIndex(y.c, j)]))
         IN  [ok |-> TRUE, value |-> LSum(Flatten(lp.e)), n |-> Numel(lp)]

\* mutant of NegElbo: the KL term is not divided by the number of rows
NegElboUnscaledKl(log_likelihood, kl, x) == LNeg(LSub(log_likelihood, Lin(kl, 0)))

\* elbo = log_likelihood - (kl / len(x)); return -elbo
NegElbo(log_likelihood, kl, x) ==
    LNeg(LSub(log_likelihood, Lin(RDiv(kl, FromInt(x.r)), 0)))

\* BayesianModel.elbo_loss, from kl (line 161) and the passes p (lines 163-165)
\* on.  events lists, in order, the calls of kl_divergence and of forward made.
ElboOf(kl, p, x, y) ==
    LET ev == <<"kl_divergence">> \o [k \in 1..Len(p.passes) |-> "forward"]
    IN  IF ~p.ok
        THEN [ok |-> FALSE, error |-> p.error, rng |-> p.rng, passes |-> p.passes,
              events |-> ev]
        ELSE IF p.passes = <<>>
        THEN [ok |-> FALSE, error |-> "stack_empty", rng |-> p.rng, passes |-> p.passes,
              events |-> ev]
        ELSE LET ll == LogLikelihood(Mean0([k \in 1..Len(p.passes) |-> p.passes[k].out]), y)
             IN  IF ~ll.ok
                 THEN [ok |-> FALSE, error |-> ll.error, rng |-> p.rng,
                       passes |-> p.passes, events |-> ev]
                 ELSE [ok |-> TRUE, value |-> NegElbo(ll.value, kl.value, x),
                       rng |-> p.rng, passes |-> p.passes, events |-> ev]

elbo_loss(self, x, y, num_samples, g) ==
    ElboOf(BayesianModel_kl_divergence(self), Passes(self, x, num_samples, 1, g, <<>>), x, y)

---------------------------------------------------------------------------
(* Inputs of the operations *)

SizeArgs == -1..MaxSize

\* BnnLayer(in_features, out_features)
LayerArgs == SizeArgs \X SizeArgs

\* BayesianModel(input_size, hidden_size, output_size, num_layers): the arguments
\* (1, 2, 1, 1) with at most one of them replaced by any value of its range
NetworkArgs ==
    {a \in SizeArgs \X SizeArgs \X SizeArgs \X (0..MaxLayers) :
        Cardinality({k \in 1..4 : a[k] # <<1, 2, 1, 1>>[k]}) <= 1}

\* input tensors x and targets y, by shape (rows, columns)
XValue(i, j) == ((i + 2 * j) % 3) - 1
YValue(i, j) == ((2 * i + j) % 3) - 1
InputShapes == {<<1, 1>>, <<2, 1>>, <<2, 2>>}
TargetShapes == {<<1, 1>>, <<2, 1>>, <<3, 1>>}
Inputs == {Matrix(s[1], s[2], LAMBDA i, j : FromInt(XValue(i, j))) : s \in InputShapes}
Targets == {Matrix(s[1], s[2], LAMBDA i, j : FromInt(YValue(i, j))) : s \in TargetShapes}
SampleCounts == 0..MaxSamples

\* parameter values an optimizer may leave behind: element (i, j) of a tensor of
\* layer l (j = 0 for a bias) under mean pattern p and log_sigma pattern q
\* (mean patterns 2 and 3 are tried on single layers; pattern 3 is one bias
\* mean of 2^-13, about 1.2e-4, with all other means 0)
ParamPatterns(kind) ==
    {<<0, 2>>, <<1, 2>>} \cup (IF kind = "BnnLayer" THEN {<<2, 0>>, <<3, 1>>} ELSE {})
TinyMean == <<1, 8192>>
MuValue(p, l, i, j) ==
    CASE p = 0 -> Zero
      [] p = 1 -> FromInt(((l + i + j) % 3) - 1)
      [] p = 2 -> IF j = 0 /\ i = 1 THEN One ELSE Zero
      [] p = 3 -> IF j = 0 /\ i = 1 THEN TinyMean ELSE Zero
LsValue(q, l, i, j) ==
    CASE q = 0 -> LOG_SIGMA_INIT
      [] q = 1 -> 0
      [] q = 2 -> LogSigmaStep * (((l + i + j) % 3) - 1)

SetLayer(self, p, q, l) ==
    [self EXCEPT
        !.weight_mu  = Matrix(self.out_features, self.in_features,
                              LAMBDA i, j : MuValue(p, l, i, j)),
        !.weight_std = Matrix(self.out_features, self.in_features,
                              LAMBDA i, j : LsValue(q, l, i, j)),
        !.bias_mu    = [i \in 1..self.out_features |-> MuValue(p, l, i, 0)],
        !.bias_std   = [i \in 1..self.out_features |-> LsValue(q, l, i, 0)]]

---------------------------------------------------------------------------
(* The state machine.  module is the object under test (none, a BnnLayer or *)
(* a BayesianModel), rng the random source, last the record of the most     *)
(* recent call made on the object.                                          *)

NoModule == [kind |-> "none"]
NoCall == [op |-> "none"]

Call(op, args, res) ==
    [op |-> op, args |-> args, ok |-> res.ok, res |-> res, self |-> module, before |-> rng]

Init ==
    /\ module = NoModule
    /\ rng \in {manual_seed(s) : s \in Seeds}
    /\ last = NoCall

\* torch.manual_seed, by the caller
ManualSeed ==
    \E s \in Seeds :
        /\ rng' = manual_seed(s)
        /\ UNCHANGED <<module, last>>

\* the external optimizer's update of the trainable parameters
OptimizerStep ==
    \E pq \in ParamPatterns(module.kind) :
        /\ module.kind # "none"
        /\ module' = IF module.kind = "BnnLayer"
                     THEN [module EXCEPT !.self = SetLayer(@, pq[1], pq[2], 1)]
                     ELSE [module EXCEPT
                             !.self.layers = [l \in 1..Len(@) |-> SetLayer(@[l], pq[1], pq[2], l)],
                             !.self.output_layer =
                                 SetLayer(@, pq[1], pq[2], Len(module.self.layers) + 1)]
        /\ last' = NoCall
        /\ UNCHANGED rng

CallBnnLayerInit ==
    \E a \in LayerArgs :
        LET r == BnnLayer_init(a[1], a[2], rng)
        IN  /\ module.kind = "none" /\ last = NoCall
            /\ module' = IF r.ok THEN [kind |-> "BnnLayer", self |-> r.self] ELSE module
            /\ rng' = r.rng
            /\ last' = Call("BnnLayer.__init__", a, r)

CallBayesianModelInit ==
    \E a \in NetworkArgs :
        LET r == BayesianModel_init(a[1], a[2], a[3], a[4], rng)
        IN  /\ module.kind = "none" /\ last = NoCall
            /\ module' = IF r.ok THEN [kind |-> "BayesianModel", self |-> r.self] ELSE module
            /\ rng' = r.rng
            /\ last' = Call("BayesianModel.__init__", a, r)

CallBnnLayerForward ==
    \E x \in Inputs :
        LET r == BnnLayer_forward(module.self, x, rng)
        IN  /\ module.kind = "BnnLayer"
            /\ rng.offset <= MaxOffset
            /\ rng' = r.rng
            /\ last' = Call("BnnLayer.forward", [x |-> x], r)
            /\ UNCHANGED module

CallBnnLayerKl ==
    /\ module.kind = "BnnLayer"
    /\ last' = Call("BnnLayer.kl_divergence", <<>>,
                    [ok |-> TRUE, value |-> BnnLayer_kl_divergence(module.self)])
    /\ UNCHANGED <<module, rng>>

\* mutant of CallForward: the sampled weight of the output layer is stored as its mean
CallForwardStoring ==
    \E x \in Inputs :
        LET r == BayesianModel_forward(module.self, x, rng)
        IN  /\ module.kind = "BayesianModel"
            /\ rng.offset <= MaxOffset
            /\ rng' = r.rng
            /\ last' = Call("BayesianModel.forward", [x |-> x], r)
            /\ module' = IF r.ok
                         THEN [module EXCEPT !.self.output_layer.weight_mu =
                                                 r.steps[Len(r.steps)].weight]
                         ELSE module

CallForward ==
    \E x \in Inputs :
        LET r == BayesianModel_forward(module.self, x, rng)
        IN  /\ module.kind = "BayesianModel"
            /\ rng.offset <= MaxOffset
            /\ rng' = r.rng
            /\ last' = Call("BayesianModel.forward", [x |-> x], r)
            /\ UNCHANGED module

CallKl ==
    /\ module.kind = "BayesianModel"
    /\ last' = Call("BayesianModel.kl_divergence", <<>>,
                    [ok |-> TRUE] @@ BayesianModel_kl_divergence(module.self))
    /\ UNCHANGED <<module, rng>>

CallElboLoss ==
    \E x \in Inputs, y \in Targets, n \in SampleCounts :
        LET r == elbo_loss(module.self, x, y, n, rng)
        IN  /\ module.kind = "BayesianModel"
            /\ rng.offset <= MaxOffset
            /\ rng' = r.rng
            /\ last' = Call("BayesianModel.elbo_loss", [x |-> x, y |-> y, num_samples |-> n], r)
            /\ UNCHANGED module

Next ==
    \/ ManualSeed
    \/ OptimizerStep
    \/ CallBnnLayerInit
    \/ CallBayesianModelInit
    \/ CallBnnLayerForward
    \/ CallBnnLayerKl
    \/ CallForward
    \/ CallKl
    \/ CallElboLoss

Spec == Init /\ [][Next]_vars

---------------------------------------------------------------------------
(* Properties *)

DrawOps == {"BnnLayer.forward", "BayesianModel.forward", "BayesianModel.elbo_loss"}
KlOps == {"BnnLayer.kl_divergence", "BayesianModel.kl_divergence"}
ShapeErrors == {"size_mismatch", "broadcast_mismatch"}

\* the layers of an object, hidden layers first, the output layer last
LayersOf(m) ==
    CASE m.kind = "none" -> <<>>
      [] m.kind = "BnnLayer" -> <<m.self>>
      [] m.kind = "BayesianModel" -> Append(m.self.layers, m.self.output_layer)

\* the means and log_sigmas of a layer, element by element, weight then bias
Means(l) == Flatten(l.weight_mu.e) \o l.bias_mu
LogSigmas(l) == Flatten(l.weight_std.e) \o l.bias_std
MeansZero(l) == \A k \in 1..Len(Means(l)) : Means(l)[k] = Zero

\* sum over all elements of 0.5 * (mu / sigma)^2, sigma = exp(log_sigma)
HalfSquaredRatio(l) ==
    RSum([k \in 1..Len(Means(l)) |-> RMul(Half, RSq(RDiv(Means(l)[k], Exp(LogSigmas(l)[k]))))])

\* x @ weight^T + bias, element (i, o)
Affine(x, weight, bias, i, o) ==
    RAdd(RSum([j \in 1..x.c |-> RMul(x.e[i][j], weight.e[o][j])]), bias[o])

\* positions of the random stream used by a sequence of draws
Positions(draws) == UNION {d.at .. (d.at + d.n - 1) : d \in {draws[k] : k \in 1..Len(draws)}}

\* the draws of a recorded call
RECURSIVE Concat(_)
Concat(ss) == IF ss = <<>> THEN <<>> ELSE Head(ss) \o Concat(Tail(ss))
DrawsOf(call) ==
    IF call.op = "BayesianModel.elbo_loss"
    THEN Concat([k \in 1..Len(call.res.passes) |-> call.res.passes[k].draws])
    ELSE call.res.draws

\* C1: constructing a layer or a network with a non-positive size argument or
\* with num_layers < 1 fails with a dimension error, raised before any parameter
\* tensor is allocated and initialised (the random source is untouched, no object
\* is returned).
C1_InvalidDimension ==
    /\ (last.op = "BnnLayer.__init__" /\ (last.args[1] <= 0 \/ last.args[2] <= 0))
          => (~last.ok /\ last.res.error = "negative_dimension"
              /\ rng = last.before /\ module = NoModule)
    /\ (last.op = "BayesianModel.__init__"
        /\ (last.args[1] <= 0 \/ last.args[2] <= 0 \/ last.args[3] <= 0 \/ last.args[4] < 1))
          => (~last.ok /\ last.res.error = "negative_dimension"
              /\ rng = last.before /\ module = NoModule)

\* C2: forward(x) on a layer whose in_features differs from the trailing
\* dimension of x, and on a network whose input_size differs from it, fails with
\* a shape mismatch and returns no output.
C2_ForwardShapeMismatch ==
    /\ (last.op = "BnnLayer.forward" /\ last.args.x.c # last.self.self.in_features)
          => (~last.ok /\ last.res.error = "size_mismatch")
    /\ (last.op = "BayesianModel.forward" /\ last.args.x.c # last.self.self.input_size)
          => (~last.ok /\ last.res.error = "size_mismatch")

\* a network with at least one hidden layer and positive sizes throughout
WellFormed(m) ==
    /\ m.kind = "BayesianModel"
    /\ Len(m.self.layers) >= 1
    /\ \A k \in 1..Len(LayersOf(m)) :
          LayersOf(m)[k].in_features > 0 /\ LayersOf(m)[k].out_features > 0

\* C3: elbo_loss(x, y, num_samples), num_samples >= 1, fails with a shape
\* mismatch and returns no loss whenever y has another number of rows than x,
\* broadcastable or not (stated for the networks with positive sizes and at
\* least one hidden layer).
C3_ElboBatchMismatch ==
    (last.op = "BayesianModel.elbo_loss" /\ WellFormed(last.self)
     /\ last.args.num_samples >= 1 /\ last.args.y.r # last.args.x.r)
        => (~last.ok /\ last.res.error \in ShapeErrors)

\* C4: kl_divergence() of a layer is non-negative, exactly 0 when every mean is
\* 0 whatever the log_sigmas, strictly positive when some mean is nonzero, and
\* equal to the sum over all weight and bias elements of 0.5 * (mu / sigma)^2
\* (stated for the layers with positive sizes).
KlAsClaimed(l, v) ==
    /\ RLe(Zero, v)
    /\ MeansZero(l) => v = Zero
    /\ ~MeansZero(l) => RLt(Zero, v)
    /\ v = HalfSquaredRatio(l)

C4_LayerKl ==
    (last.op = "BnnLayer.kl_divergence"
     /\ last.self.self.in_features > 0 /\ last.self.self.out_features > 0)
        => KlAsClaimed(last.self.self, last.res.value)

\* C5: the network's kl_divergence() is the sum of kl_divergence() of each of
\* the num_layers hidden layers and of the output layer, each counted once.
C5_TotalKl ==
    last.op = "BayesianModel.kl_divergence" =>
        LET ls == LayersOf(last.self)
        IN  /\ last.res.value = RSum([k \in 1..Len(ls) |-> BnnLayer_kl_divergence(ls[k])])
            /\ last.res.visited = [k \in 1..Len(ls) |-> k]

\* the total was taken over two hidden layers and the output layer, each of them
\* contributing
C5_Witness ==
    /\ last.op = "BayesianModel.kl_divergence"
    /\ Len(last.self.self.layers) >= 2
    /\ \A k \in 1..Len(LayersOf(last.self)) :
          RLt(Zero, BnnLayer_kl_divergence(LayersOf(last.self)[k]))


\* C6: elbo_loss returns -(log_likelihood - kl / N): kl the total KL divergence,
\* N the number of rows of x, log_likelihood the summed log-probability of y
\* under Normal(y_hat, 1), y_hat the elementwise mean of the num_samples forward
\* outputs.  With log N(y; m, 1) = -(y - m)^2 / 2 - log(sqrt(2*pi)) the loss is
\* sum (y - y_hat)^2 / 2 + kl / N, plus one log(sqrt(2*pi)) per element.
OutputsOf(call) == [k \in 1..Len(call.res.passes) |-> call.res.passes[k].out]
YHat(outs, i, j) ==
    RDiv(RSum([k \in 1..Len(outs) |-> outs[k].e[i][j]]), FromInt(Len(outs)))
\* sum of (y - y_hat)^2 / 2 over the elements that broadcasting pairs up
PairedRows(out, y) == BDim(out.r, y.r)
PairedCols(out, y) == BDim(out.c, y.c)
HalfSquaredError(outs, y) ==
    RSum(Flatten([i \in 1..PairedRows(outs[1], y) |-> [j \in 1..PairedCols(outs[1], y) |->
            RMul(Half, RSq(RSub(y.e[BIndex(y.r, i)][BIndex(y.c, j)],
                                YHat(outs, BIndex(outs[1].r, i), BIndex(outs[1].c, j)))))]]))
\* the loss had the likelihoods of the passes been averaged instead
MeanOfHalfSquaredErrors(outs, y) ==
    RDiv(RSum([k \in 1..Len(outs) |-> HalfSquaredError(<<outs[k]>>, y)]), FromInt(Len(outs)))
\* kl of the claim: what the network's kl_divergence() returns
TotalKl(m) == BayesianModel_kl_divergence(m.self).value

C6_ElboValue ==
    (last.op = "BayesianModel.elbo_loss" /\ last.ok) =>
        /\ last.res.value.q =
              RAdd(HalfSquaredError(OutputsOf(last), last.args.y),
                   RDiv(TotalKl(last.self), FromInt(last.args.x.r)))
        /\ last.res.value.c = PairedRows(OutputsOf(last)[1], last.args.y)
                               * PairedCols(OutputsOf(last)[1], last.args.y)

\* a loss over two rows and two passes whose outputs differ, with a positive KL
\* term: averaging the likelihoods would have given another value
C6_Witness ==
    /\ last.op = "BayesianModel.elbo_loss" /\ last.ok
    /\ last.args.num_samples >= 2 /\ last.args.x.r >= 2 /\ last.args.y.r = last.args.x.r
    /\ RLt(Zero, TotalKl(last.self))
    /\ HalfSquaredError(OutputsOf(last), last.args.y)
          # MeanOfHalfSquaredErrors(OutputsOf(last), last.args.y)

\* C7: a call of elbo_loss with num_samples >= 1 whose forward passes succeed
\* computes the total KL once and makes num_samples forward passes on x; each
\* pass draws a weight and a bias for every hidden layer and the output layer,
\* at positions of the random stream that follow one another (none is used
\* twice), num_samples * 2 * (num_layers + 1) draws in all, and the random
\* source ends behind the last of them.
C7_ElboSampling ==
    (last.op = "BayesianModel.elbo_loss" /\ last.args.num_samples >= 1
     /\ (last.ok \/ last.res.error = "broadcast_mismatch")) =>
        LET n  == last.args.num_samples
            ls == LayersOf(last.self)
            ds == DrawsOf(last)
        IN  /\ last.res.events = <<"kl_divergence">> \o [k \in 1..n |-> "forward"]
            /\ Len(last.res.passes) = n
            /\ \A k \in 1..n :
                  /\ last.res.passes[k].ok
                  /\ last.res.passes[k].steps[1].input = last.args.x
                  /\ Len(last.res.passes[k].draws) = 2 * Len(ls)
            /\ Len(ds) = n * 2 * (Len(last.self.self.layers) + 1)
            /\ \A k \in 1..Len(ds) :
                  LET l == (((k - 1) \div 2) % Len(ls)) + 1
                  IN  /\ ds[k].layer = l
                      /\ ds[k].tensor = (IF k % 2 = 1 THEN "weight" ELSE "bias")
                      /\ ds[k].n = (IF k % 2 = 1 THEN ls[l].out_features * ls[l].in_features
                                                 ELSE ls[l].out_features)
                      /\ ds[k].at = (IF k = 1 THEN last.before.offset
                                              ELSE ds[k - 1].at + ds[k - 1].n)
            /\ last.res.rng = [last.before EXCEPT
                                  !.offset = ds[Len(ds)].at + ds[Len(ds)].n]

\* a returned loss over two passes of a network with two hidden layers, every
\* draw of which used at least one variate
C7_Witness ==
    /\ last.op = "BayesianModel.elbo_loss" /\ last.ok
    /\ last.args.num_samples >= 2
    /\ Len(last.self.self.layers) >= 2
    /\ \A k \in 1..Len(DrawsOf(last)) : DrawsOf(last)[k].n > 0

\* C8: the network's forward applies the hidden layers in construction order,
\* each once and followed by max(0, .), then the output layer once without
\* nonlinearity: what a hidden layer passes on is >= 0, the returned output is
\* the raw affine result of the output layer.
Max0(a) == IF RLt(Zero, a) THEN a ELSE Zero
\* weight and bias are samples mu + sigma * eps of the parameters of layer l
SampledFrom(l, weight, bias) ==
    /\ weight.r = l.out_features /\ weight.c = l.in_features /\ Len(bias) = l.out_features
    /\ \A i \in 1..weight.r : \A j \in 1..weight.c :
          \E eps \in -1..1 : weight.e[i][j] =
              RAdd(l.weight_mu.e[i][j], RMul(Exp(l.weight_std.e[i][j]), FromInt(eps)))
    /\ \A i \in 1..Len(bias) :
          \E eps \in -1..1 : bias[i] =
              RAdd(l.bias_mu[i], RMul(Exp(l.bias_std[i]), FromInt(eps)))

C8_ForwardOrder ==
    (last.op = "BayesianModel.forward" /\ last.ok) =>
        LET ls == LayersOf(last.self)
            st == last.res.steps
        IN  /\ Len(st) = Len(ls)
            /\ st[1].input = last.args.x
            /\ \A k \in 1..Len(st) :
                  /\ st[k].layer = k
                  /\ SampledFrom(ls[k], st[k].weight, st[k].bias)
                  /\ k > 1 => st[k].input = st[k - 1].out
                  /\ st[k].out.r = st[k].input.r /\ st[k].out.c = ls[k].out_features
                  /\ \A i \in 1..st[k].out.r : \A o \in 1..st[k].out.c :
                        LET a == Affine(st[k].input, st[k].weight, st[k].bias, i, o)
                        IN  IF k < Len(st)
                            THEN st[k].out.e[i][o] = Max0(a) /\ RLe(Zero, st[k].out.e[i][o])
                            ELSE st[k].out.e[i][o] = a
            /\ last.res.out = st[Len(st)].out

\* a forward pass through two hidden layers in which the nonlinearity cut off a
\* negative value and the output layer returned a negative one
C8_Witness ==
    /\ last.op = "BayesianModel.forward" /\ last.ok
    /\ Len(last.self.self.layers) >= 2
    /\ \E k \in 1..Len(last.self.self.layers) :
          \E i \in 1..last.res.steps[k].out.r : \E o \in 1..last.res.steps[k].out.c :
              RLt(Affine(last.res.steps[k].input, last.res.steps[k].weight,
                         last.res.steps[k].bias, i, o), Zero)
    /\ \E i \in 1..last.res.out.r : \E o \in 1..last.res.out.c :
          RLt(last.res.out.e[i][o], Zero)

\* C9: forward, kl_divergence and elbo_loss leave every mu and log_sigma tensor
\* and the layer sequence as they were; they change the random source only, and
\* kl_divergence changes nothing at all.
C9_ParametersUnchanged ==
    [][(last' # last /\ last'.op \in DrawOps \cup KlOps) =>
          /\ module' = module
          /\ last'.op \in KlOps => rng' = rng]_vars

\* elbo_loss returned, having advanced the random source, on an object whose
\* parameters are those it was called with
C9_Witness ==
    /\ last.op = "BayesianModel.elbo_loss" /\ last.ok
    /\ rng # last.before
    /\ module = last.self

====
